---- MODULE Spec2Model ----
(***************************************************************************)
(* A model of summitengine.py: rectangular drawables, the four widgets     *)
(* (Button, Label, InputBox, ScrollView), and the GameEngine frame loop    *)
(* with its event dispatch, update and render phases.                      *)
(*                                                                         *)
(* Python objects are records.  A widget record carries every attribute    *)
(* any class of the hierarchy has; attributes a class does not have keep   *)
(* the default given by GameObject below and are never read for it.        *)
(* Strings that the program edits or prints are sequences of one-character *)
(* strings.  Colours and fonts do not influence control flow and are left  *)
(* out of the records.                                                     *)
(***************************************************************************)
EXTENDS Integers, Sequences, FiniteSets, TLC

VARIABLES
    ui_elements,   \* GameEngine.ui_elements: the top-level widget list
    game_objects,  \* GameEngine.game_objects
    running,       \* GameEngine.running
    pc,            \* where the program is: setup, the phases of run(), or ended
    out,           \* the lines the last operation wrote to standard output
    screen,        \* the display surface: clip rectangle and the draw calls of the last draw
    hist,          \* the events handed directly to a widget's handle_event so far
    events,        \* what pygame.event.get() returned in the current frame
    calls          \* the calls the last operation made on widgets, in order

vars == <<ui_elements, game_objects, running, pc, out, screen, hist, events, calls>>

--------------------------------------------------------------------------
(* Bounds of the model *)

MaxText == 2       \* longest InputBox buffer explored
MaxHist == 4       \* longest event history handed to a single widget
MaxQueue == 2      \* most events returned by one pygame.event.get()
MaxWidgets == 2    \* most entries of ui_elements built during setup
MaxObjects == 1    \* most entries of game_objects built during setup
MaxScrolls == 17   \* longest run of scroll-down events replayed on one view

--------------------------------------------------------------------------
(* pygame.Rect and the event records *)

Rect(x, y, w, h) == [x |-> x, y |-> y, w |-> w, h |-> h]

\* pygame.Rect.collidepoint: left/top edge inside, right/bottom edge outside
collidepoint(r, p) ==
    /\ r.x <= p[1] /\ p[1] < r.x + r.w
    /\ r.y <= p[2] /\ p[2] < r.y + r.h

Min(a, b) == IF a <= b THEN a ELSE b
Max(a, b) == IF a >= b THEN a ELSE b

\* One record shape for all pygame events; fields a kind does not have are defaulted.
QuitEvent == [type |-> "QUIT", pos |-> <<0, 0>>, button |-> 0, key |-> "", unicode |-> <<>>]
MouseDown(p, b) ==
    [type |-> "MOUSEBUTTONDOWN", pos |-> p, button |-> b, key |-> "", unicode |-> <<>>]
KeyDown(k, u) ==
    [type |-> "KEYDOWN", pos |-> <<0, 0>>, button |-> 0, key |-> k, unicode |-> u]
\* an event kind the program names nowhere (pygame.MOUSEMOTION, KEYUP, ...)
OtherEvent == [type |-> "MOUSEMOTION", pos |-> <<0, 0>>, button |-> 0, key |-> "", unicode |-> <<>>]

\* a call observed on widget number target: a method call with what it returned,
\* or (op = "print") the notification printed for that widget
Call(op, target, arg, result) ==
    [op |-> op, target |-> target, arg |-> arg, result |-> result]

--------------------------------------------------------------------------
(* Constructors *)

GameObject(x, y, width, height) ==
    [cls |-> "GameObject", rect |-> Rect(x, y, width, height), text |-> <<>>,
     active |-> FALSE, content_height |-> 0, scroll_y |-> 0,
     has_children |-> FALSE, children |-> <<>>]

Button(x, y, width, height, text) ==
    [GameObject(x, y, width, height) EXCEPT !.cls = "Button", !.text = text]

Label(x, y, width, height, text) ==
    [GameObject(x, y, width, height) EXCEPT !.cls = "Label", !.text = text]

InputBox(x, y, width, height) ==
    [GameObject(x, y, width, height) EXCEPT !.cls = "InputBox", !.text = <<>>,
                                            !.active = FALSE]

\* __init__ sets content_height and scroll_y only: the children attribute does not
\* exist until a caller assigns it (has_children = FALSE).
ScrollView(x, y, width, height, content_height) ==
    [GameObject(x, y, width, height) EXCEPT !.cls = "ScrollView",
                                            !.content_height = content_height,
                                            !.scroll_y = 0]

\* scroll_view.children = [...]
SetChildren(sv, kids) == [sv EXCEPT !.has_children = TRUE, !.children = kids]

--------------------------------------------------------------------------
(* Button *)

\* mutant: the right and bottom edges count as hits too
is_clicked_inclusive(self, mouse_pos) ==
    /\ self.rect.x <= mouse_pos[1] /\ mouse_pos[1] <= self.rect.x + self.rect.w
    /\ self.rect.y <= mouse_pos[2] /\ mouse_pos[2] <= self.rect.y + self.rect.h

is_clicked(self, mouse_pos) == collidepoint(self.rect, mouse_pos)

--------------------------------------------------------------------------
(* InputBox.handle_event: the box afterwards and the lines it printed *)

InputLine(text) == [fmt |-> "Input: ", arg |-> text]

\* mutant: a press inside always focuses (focus-follows-click)
InputBox_focus_sticky(self, event) ==
    IF event.type = "MOUSEBUTTONDOWN"
    THEN [self EXCEPT !.active = collidepoint(self.rect, event.pos)]
    ELSE self

\* mutant: a press outside leaves the focus where it is
InputBox_focus_keptOutside(self, event) ==
    IF event.type = "MOUSEBUTTONDOWN" /\ collidepoint(self.rect, event.pos)
    THEN [self EXCEPT !.active = ~self.active]
    ELSE self

InputBox_focus(self, event) ==
    IF event.type = "MOUSEBUTTONDOWN"
    THEN IF collidepoint(self.rect, event.pos)
         THEN [self EXCEPT !.active = ~self.active]
         ELSE [self EXCEPT !.active = FALSE]
    ELSE self

\* mutant: the focus test of the key branch is dropped
InputBox_key_unguarded(self, event) ==
    IF event.type = "KEYDOWN"
    THEN IF event.key = "K_RETURN"
         THEN [self |-> [self EXCEPT !.text = <<>>], out |-> <<InputLine(self.text)>>]
         ELSE IF event.key = "K_BACKSPACE"
         THEN [self |-> [self EXCEPT !.text =
                            SubSeq(self.text, 1, Max(Len(self.text) - 1, 0))],
               out |-> <<>>]
         ELSE [self |-> [self EXCEPT !.text = self.text \o event.unicode], out |-> <<>>]
    ELSE [self |-> self, out |-> <<>>]

\* mutant: the character is put in front of the buffer
InputBox_key_prepend(self, event) ==
    IF event.type = "KEYDOWN" /\ self.active
    THEN IF event.key = "K_RETURN"
         THEN [self |-> [self EXCEPT !.text = <<>>], out |-> <<InputLine(self.text)>>]
         ELSE IF event.key = "K_BACKSPACE"
         THEN [self |-> [self EXCEPT !.text =
                            SubSeq(self.text, 1, Max(Len(self.text) - 1, 0))],
               out |-> <<>>]
         ELSE [self |-> [self EXCEPT !.text = event.unicode \o self.text], out |-> <<>>]
    ELSE [self |-> self, out |-> <<>>]

\* mutant: the buffer is cleared before it is printed
InputBox_key_clearfirst(self, event) ==
    IF event.type = "KEYDOWN" /\ self.active
    THEN IF event.key = "K_RETURN"
         THEN [self |-> [self EXCEPT !.text = <<>>], out |-> <<InputLine(<<>>)>>]
         ELSE IF event.key = "K_BACKSPACE"
         THEN [self |-> [self EXCEPT !.text =
                            SubSeq(self.text, 1, Max(Len(self.text) - 1, 0))],
               out |-> <<>>]
         ELSE [self |-> [self EXCEPT !.text = self.text \o event.unicode], out |-> <<>>]
    ELSE [self |-> self, out |-> <<>>]

InputBox_key(self, event) ==
    IF event.type = "KEYDOWN" /\ self.active
    THEN IF event.key = "K_RETURN"
         THEN [self |-> [self EXCEPT !.text = <<>>], out |-> <<InputLine(self.text)>>]
         ELSE IF event.key = "K_BACKSPACE"
         THEN [self |-> [self EXCEPT !.text =
                            SubSeq(self.text, 1, Max(Len(self.text) - 1, 0))],
               out |-> <<>>]
         ELSE [self |-> [self EXCEPT !.text = self.text \o event.unicode], out |-> <<>>]
    ELSE [self |-> self, out |-> <<>>]

InputBox_handle_event(self, event) == InputBox_key(InputBox_focus(self, event), event)

--------------------------------------------------------------------------
(* ScrollView.handle_event *)

ScrollStep == 10
WheelUp == 4
WheelDown == 5
LeftButton == 1

ScrollUp(self) == [self EXCEPT !.scroll_y = Min(self.scroll_y + ScrollStep, 0)]

\* mutant: scrolling down is never stopped at the end of the content
ScrollDown_unclamped(self) == [self EXCEPT !.scroll_y = self.scroll_y - ScrollStep]

ScrollDown(self) ==
    [self EXCEPT !.scroll_y =
        Max(self.scroll_y - ScrollStep, -(self.content_height - self.rect.h))]

\* mutant: the wheel scrolls the view wherever the pointer is
ScrollView_handle_event_anywhere(self, event) ==
    IF event.type = "MOUSEBUTTONDOWN"
    THEN LET s1 == IF event.button = WheelUp THEN ScrollUp(self) ELSE self
         IN  IF event.button = WheelDown THEN ScrollDown(s1) ELSE s1
    ELSE self

ScrollView_handle_event(self, event) ==
    IF event.type = "MOUSEBUTTONDOWN" /\ collidepoint(self.rect, event.pos)
    THEN LET s1 == IF event.button = WheelUp THEN ScrollUp(self) ELSE self
         IN  IF event.button = WheelDown THEN ScrollDown(s1) ELSE s1
    ELSE self

--------------------------------------------------------------------------
(* Drawing.  A draw call takes the object and the surface and gives back    *)
(* the object (ScrollView.draw writes to its children's rect.y), the       *)
(* surface, and whether an exception left the call before its end.          *)

\* pygame.draw.rect(screen, color, rect): logged with the clip in force
FillRect(scr, self) ==
    [scr EXCEPT !.drawn = Append(@, [cls |-> self.cls, text |-> self.text,
                                     rect |-> self.rect, clip |-> scr.clip])]

get_clip(scr) == scr.clip
set_clip(scr, r) == [scr EXCEPT !.clip = r]

\* GameObject.draw; Button, Label and InputBox add text on top of the same rectangle
GameObject_draw(self, scr) == [self |-> self, screen |-> FillRect(scr, self), raised |-> FALSE]

ShiftChild(child, dy) == [child EXCEPT !.rect.y = @ + dy]

\* mutant: the translation is not undone after the child is drawn
RestoreChild_forgotten(child, dy) == child

RestoreChild(child, dy) == [child EXCEPT !.rect.y = @ - dy]
RestoreClip(scr, clip_rect) == set_clip(scr, clip_rect)

\* F applied to the value v, which is computed once
With(v, F(_)) == CHOOSE r \in {F(x) : x \in {v}} : TRUE

RECURSIVE Draw(_, _), DrawChildren(_, _, _)

\* the for loop of ScrollView.draw from child i on
DrawChildren(self, i, scr) ==
    IF i > Len(self.children)
    THEN [self |-> self, screen |-> scr, raised |-> FALSE]
    ELSE With(Draw(ShiftChild(self.children[i], self.scroll_y), scr),
              LAMBDA d :
                 IF d.raised
                 THEN [self |-> [self EXCEPT !.children[i] = d.self],
                       screen |-> d.screen, raised |-> TRUE]
                 ELSE DrawChildren(
                          [self EXCEPT !.children[i] = RestoreChild(d.self, self.scroll_y)],
                          i + 1, d.screen))

ScrollView_draw(self, scr) ==
    LET clip_rect == get_clip(scr)
        s1 == FillRect(set_clip(scr, self.rect), self)
    IN  IF ~self.has_children
        THEN [self |-> self, screen |-> s1, raised |-> TRUE]    \* AttributeError
        ELSE With(DrawChildren(self, 1, s1),
                  LAMBDA d :
                     IF d.raised THEN d
                     ELSE [self |-> d.self, screen |-> RestoreClip(d.screen, clip_rect),
                           raised |-> FALSE])

Draw(self, scr) ==
    IF self.cls = "ScrollView" THEN ScrollView_draw(self, scr) ELSE GameObject_draw(self, scr)

--------------------------------------------------------------------------
(* Geometry and inputs explored *)

ScreenRect == Rect(0, 0, 800, 600)     \* GameEngine(800, 600, ...)
R1 == Rect(0, 0, 20, 20)
R2 == Rect(10, 10, 20, 30)             \* overlaps R1
R3 == Rect(40, 0, 10, 10)              \* apart from R1 and R2
RExample == Rect(50, 400, 700, 150)    \* the scroll view of the example

PIn12 == <<15, 15>>     \* inside R1 and R2
PEdge1 == <<20, 5>>     \* on the right edge of R1: outside R1, R2 and R3
PIn3 == <<45, 5>>       \* inside R3 only
PBottom2 == <<15, 40>>  \* on the bottom edge of R2: outside
PExample == <<100, 450>>
POut == <<700, 50>>     \* inside no rectangle used

KeyA == KeyDown("K_a", <<"a">>)
KeyB == KeyDown("K_b", <<"b">>)
KeyReturn == KeyDown("K_RETURN", <<"CR">>)         \* unicode is the carriage return
KeyBackspace == KeyDown("K_BACKSPACE", <<"BS">>)   \* unicode is the backspace character
KeyShift == KeyDown("K_LSHIFT", <<>>)      \* a key with no character

InitScreen == [clip |-> ScreenRect, drawn |-> <<>>]

--------------------------------------------------------------------------
(* A single InputBox receiving events through handle_event *)

InputEvents ==
    {MouseDown(PIn12, LeftButton), MouseDown(PIn12, WheelUp),
     MouseDown(PEdge1, LeftButton), MouseDown(POut, LeftButton),
     KeyA, KeyB, KeyReturn, KeyBackspace, KeyShift, QuitEvent, OtherEvent}

InitInput ==
    /\ ui_elements = <<InputBox(R1.x, R1.y, R1.w, R1.h)>>
    /\ game_objects = <<>>
    /\ running = TRUE
    /\ pc = "widget"
    /\ out = <<>>
    /\ screen = InitScreen
    /\ hist = <<>>
    /\ events = <<>>
    /\ calls = <<>>

InputBoxEvent(event) ==
    /\ pc = "widget"
    /\ ui_elements[1].cls = "InputBox"
    /\ Len(hist) < MaxHist
    /\ LET r == InputBox_handle_event(ui_elements[1], event)
       IN  /\ Len(r.self.text) <= MaxText
           /\ ui_elements' = <<r.self>>
           /\ out' = r.out
    /\ hist' = Append(hist, event)
    /\ UNCHANGED <<game_objects, running, pc, screen, events, calls>>

NextInput == \E event \in InputEvents : InputBoxEvent(event)

SpecInput == InitInput /\ [][NextInput]_vars

--------------------------------------------------------------------------
(* A single ScrollView receiving events through handle_event and drawn      *)
(* through draw                                                             *)

ScrollEvents ==
    {MouseDown(PIn12, WheelUp), MouseDown(PIn12, WheelDown), MouseDown(PIn12, LeftButton),
     MouseDown(PIn12, 3), MouseDown(PBottom2, WheelDown), MouseDown(PExample, WheelDown),
     MouseDown(PExample, WheelUp), MouseDown(POut, WheelDown), MouseDown(POut, WheelUp),
     KeyA, QuitEvent, OtherEvent}

ScrollViewChoices ==
    {ScrollView(R2.x, R2.y, R2.w, R2.h, ch) : ch \in {10, 30, 45}}
        \cup {ScrollView(RExample.x, RExample.y, RExample.w, RExample.h, 300)}

ChildLists ==
    {<<>>,
     <<Label(50, 410, 200, 30, <<"1">>), Label(50, 440, 200, 30, <<"2">>)>>,
     <<GameObject(12, 12, 5, 5), InputBox(12, 50, 10, 10)>>}

InitScroll ==
    /\ \E sv \in ScrollViewChoices :
          \/ ui_elements = <<sv>>
          \/ \E kids \in ChildLists : ui_elements = <<SetChildren(sv, kids)>>
    /\ game_objects = <<>>
    /\ running = TRUE
    /\ pc = "widget"
    /\ out = <<>>
    /\ \E c \in {ScreenRect, Rect(0, 0, 400, 300)} : screen = set_clip(InitScreen, c)
    /\ hist = <<>>
    /\ events = <<>>
    /\ calls = <<>>

ScrollViewEvent(event) ==
    /\ pc = "widget"
    /\ ui_elements[1].cls = "ScrollView"
    /\ ui_elements' = <<ScrollView_handle_event(ui_elements[1], event)>>
    /\ out' = <<>>
    /\ calls' = <<Call("handle_event", 1, event, "None")>>
    /\ UNCHANGED <<game_objects, running, pc, screen, hist, events>>

\* scroll_view.draw(screen) on a surface whose log starts empty
ScrollViewDraw ==
    /\ pc = "widget"
    /\ ui_elements[1].cls = "ScrollView"
    /\ LET d == Draw(ui_elements[1], [screen EXCEPT !.drawn = <<>>])
       IN  /\ ui_elements' = <<d.self>>
           /\ screen' = d.screen
           /\ pc' = IF d.raised THEN "crashed" ELSE pc
    /\ out' = <<>>
    /\ calls' = <<>>
    /\ UNCHANGED <<game_objects, running, hist, events>>

NextScroll ==
    \/ \E event \in ScrollEvents : ScrollViewEvent(event)
    \/ ScrollViewDraw

SpecScroll == InitScroll /\ [][NextScroll]_vars

--------------------------------------------------------------------------
(* A single Button asked is_clicked at points on, inside and around its     *)
(* bounds                                                                   *)

ButtonChoices == {Button(R1.x, R1.y, R1.w, R1.h, <<"A">>),
                  Button(R2.x, R2.y, R2.w, R2.h, <<"B">>),
                  Button(R3.x, R3.y, R3.w, R3.h, <<"C">>)}

\* the corners and edges of the three bounds, and points one off them
MousePositions ==
    {-1, 0, 9, 10, 19, 20, 29, 30, 39, 40, 49, 50} \X {-1, 0, 9, 10, 19, 20, 39, 40}

InitButton ==
    /\ \E b \in ButtonChoices : ui_elements = <<b>>
    /\ game_objects = <<>>
    /\ running = TRUE
    /\ pc = "widget"
    /\ out = <<>>
    /\ screen = InitScreen
    /\ hist = <<>>
    /\ events = <<>>
    /\ calls = <<>>

\* button.is_clicked(mouse_pos): returns the answer, assigns nothing
ButtonIsClicked(mouse_pos) ==
    /\ pc = "widget"
    /\ calls' = <<Call("is_clicked", 1, mouse_pos, is_clicked(ui_elements[1], mouse_pos))>>
    /\ UNCHANGED <<ui_elements, game_objects, running, pc, out, screen, hist, events>>

NextButton == \E mouse_pos \in MousePositions : ButtonIsClicked(mouse_pos)

SpecButton == InitButton /\ [][NextButton]_vars

--------------------------------------------------------------------------
(* Properties of the InputBox, checked under SpecInput *)

\* p lies within the bounds r, as the specification words it
InBounds(r, p) ==
    /\ p[1] \in r.x .. (r.x + r.w - 1)
    /\ p[2] \in r.y .. (r.y + r.h - 1)

Front(s) == SubSeq(s, 1, Len(s) - 1)
Last(s) == s[Len(s)]

IsPress(e) == e.type = "MOUSEBUTTONDOWN"
IsKey(e) == e.type = "KEYDOWN"
IsSubmit(e) == IsKey(e) /\ e.key = "K_RETURN"
IsDeleteBackward(e) == IsKey(e) /\ e.key = "K_BACKSPACE"
IsPrintable(e) == IsKey(e) /\ ~IsSubmit(e) /\ ~IsDeleteBackward(e) /\ Len(e.unicode) = 1

\* the focus state the toggle policy gives after the events h, for bounds r
RECURSIVE FocusRef(_, _)
FocusRef(r, h) ==
    IF h = <<>> THEN FALSE
    ELSE LET before == FocusRef(r, Front(h))
             e == Last(h)
         IN  IF IsPress(e) THEN InBounds(r, e.pos) /\ ~before ELSE before

\* the reference string: keys replayed while the policy has the box focused
RECURSIVE TextRef(_, _)
TextRef(r, h) ==
    IF h = <<>> THEN <<>>
    ELSE LET before == TextRef(r, Front(h))
             e == Last(h)
         IN  IF ~FocusRef(r, h) THEN before
             ELSE IF IsSubmit(e) THEN <<>>
             ELSE IF IsDeleteBackward(e)
                  THEN IF before = <<>> THEN <<>> ELSE Front(before)
             ELSE IF IsPrintable(e) THEN Append(before, e.unicode[1])
             ELSE before

TheBox == ui_elements[1]

\* C3: the buffer of an InputBox changes only on a KeyDown event received while
\* the box is Focused; events received while Unfocused and all pointer events
\* leave the buffer as it was.
C3_BufferOnlyWhileFocused ==
    [][/\ (ui_elements'[1].text # TheBox.text) => (IsKey(Last(hist')) /\ TheBox.active)
       /\ ~TheBox.active => ui_elements'[1].text = TheBox.text
       /\ IsPress(Last(hist')) => ui_elements'[1].text = TheBox.text]_vars

\* 'a' typed while focused stayed, 'b' typed after the box was unfocused was ignored
C3_Witness ==
    /\ hist = <<MouseDown(PIn12, LeftButton), KeyA, MouseDown(PIn12, LeftButton), KeyB>>
    /\ TheBox.text = <<"a">>
    /\ ~TheBox.active

\* C4: focus follows the toggle policy: after every pointer press at p the box is
\* focused iff p is inside its bounds and it was not focused before; initially
\* it is Unfocused; a press outside always leaves it Unfocused; two presses
\* inside in a row give back the state before them; keys never change focus.
C4_FocusTogglePolicy ==
    /\ TheBox.active = FocusRef(TheBox.rect, hist)
    /\ (hist # <<>> /\ IsPress(Last(hist)) /\ ~InBounds(TheBox.rect, Last(hist).pos))
          => ~TheBox.active
    /\ (/\ Len(hist) >= 2
        /\ IsPress(Last(hist)) /\ InBounds(TheBox.rect, Last(hist).pos)
        /\ IsPress(Last(Front(hist))) /\ InBounds(TheBox.rect, Last(Front(hist)).pos))
          => TheBox.active = FocusRef(TheBox.rect, Front(Front(hist)))
    /\ (hist # <<>> /\ IsKey(Last(hist)))
          => TheBox.active = FocusRef(TheBox.rect, Front(hist))

\* focused by one press, then two more presses inside: focused again
C4_Witness ==
    /\ hist = <<MouseDown(PIn12, LeftButton), MouseDown(PIn12, LeftButton),
                MouseDown(PIn12, LeftButton)>>
    /\ TheBox.active

\* C5: the buffer equals the key sequence replayed on a reference string: a
\* printable key appends its character at the end, delete-backward removes the
\* last character of a non-empty buffer and does nothing to an empty one.
C5_BufferIsReplay == TheBox.text = TextRef(TheBox.rect, hist)

\* typed a, b, then deleted backward once
C5_Witness ==
    /\ hist = <<MouseDown(PIn12, LeftButton), KeyA, KeyB, KeyBackspace>>
    /\ TheBox.text = <<"a">>

\* C6: a submit key received while Focused emits exactly one committed-input
\* signal carrying the buffer as it was (the text typed since the last submit),
\* empties the buffer and keeps the focus; no other event emits a signal.
C6_SubmitEmitsBuffer ==
    [][IF IsSubmit(Last(hist')) /\ TheBox.active
       THEN /\ out' = <<InputLine(TheBox.text)>>
            /\ out' = <<InputLine(TextRef(TheBox.rect, hist))>>
            /\ ui_elements'[1].text = <<>>
            /\ ui_elements'[1].active
       ELSE out' = <<>>]_vars

\* "ab" was typed and submitted
C6_Witness ==
    /\ hist = <<MouseDown(PIn12, LeftButton), KeyA, KeyB, KeyReturn>>
    /\ out = <<InputLine(<<"a", "b">>)>>
    /\ TheBox.text = <<>>
    /\ TheBox.active

--------------------------------------------------------------------------
(* Properties of the ScrollView, checked under SpecScroll *)

TheView == ui_elements[1]

\* C1: whatever contentHeight and bounds.height are, after any sequence of
\* events handed to ScrollView.handle_event the offset satisfies
\* -(max(contentHeight - bounds.height, 0)) <= scrollOffset <= 0.
C1_OffsetClamped ==
    /\ TheView.scroll_y <= 0
    /\ TheView.scroll_y >= -(Max(TheView.content_height - TheView.rect.h, 0))

\* what one successful draw of the view v must put on a surface: the view's own
\* rectangle, then every child at stored y + scroll offset, all clipped to v.rect
ExpectedDrawn(v) ==
    <<[cls |-> v.cls, text |-> v.text, rect |-> v.rect, clip |-> v.rect]>>
    \o [i \in 1 .. Len(v.children) |->
           [cls |-> v.children[i].cls, text |-> v.children[i].text,
            rect |-> Rect(v.children[i].rect.x, v.children[i].rect.y + v.scroll_y,
                          v.children[i].rect.w, v.children[i].rect.h),
            clip |-> v.rect]]

\* C9: ScrollView.draw leaves no residue: when it returns, every child's stored
\* bounds, the scroll offset and the surface's clip region are what they were
\* before the call, and during the call each child was drawn at stored
\* y + scrollOffset under a clip equal to the view's bounds; so a second draw
\* with no event in between draws every child at the same position.
C9_DrawLeavesNoResidue ==
    [][(ScrollViewDraw /\ pc' # "crashed") =>
          /\ ui_elements' = ui_elements
          /\ screen'.clip = screen.clip
          /\ screen'.drawn = ExpectedDrawn(TheView)
          /\ (screen.drawn # <<>> /\ screen.drawn = ExpectedDrawn(TheView))
                => screen' = screen]_vars

\* a view scrolled away from 0 has drawn its two children, under a clip that
\* was not the whole surface before the call
C9_Witness ==
    /\ pc = "widget"
    /\ TheView.cls = "ScrollView"
    /\ TheView.scroll_y = -15
    /\ Len(TheView.children) = 2
    /\ Len(screen.drawn) = 3
    /\ screen.drawn[3].rect.y = TheView.children[2].rect.y - 15
    /\ screen.clip = Rect(0, 0, 400, 300)

\* the offset the specification gives after a scroll-down, and after a scroll-up
AfterScrollDown(v) ==
    IF v.scroll_y - 10 >= -(v.content_height - v.rect.h)
    THEN v.scroll_y - 10
    ELSE -(v.content_height - v.rect.h)

AfterScrollUp(v) == IF v.scroll_y + 10 <= 0 THEN v.scroll_y + 10 ELSE 0

IsScrollDownIn(v, e) == IsPress(e) /\ e.button = 5 /\ InBounds(v.rect, e.pos)
IsScrollUpIn(v, e) == IsPress(e) /\ e.button = 4 /\ InBounds(v.rect, e.pos)

\* the view after k scroll-down events at p
RECURSIVE ScrolledDown(_, _, _)
ScrolledDown(v, p, k) ==
    IF k = 0 THEN v
    ELSE ScrollView_handle_event(ScrolledDown(v, p, k - 1), MouseDown(p, WheelDown))

ExampleView == ScrollView(RExample.x, RExample.y, RExample.w, RExample.h, 300)

\* C14: a scroll-down inside the bounds lowers the offset by exactly 10 when
\* that stays at or above -(contentHeight - bounds.height) and otherwise sets
\* it to that bound; a scroll-up inside raises it by exactly 10 when that
\* stays at or below 0 and otherwise sets it to 0.  With contentHeight 300
\* and height 150, from 0, the k-th scroll-down gives -10k up to k = 15 and
\* -150 from then on.
C14_ScrollStepsAndStops ==
    /\ [](\A e \in ScrollEvents :
            LET after == ScrollView_handle_event(TheView, e).scroll_y
            IN  /\ IsScrollDownIn(TheView, e) => after = AfterScrollDown(TheView)
                /\ IsScrollUpIn(TheView, e) => after = AfterScrollUp(TheView))
    /\ [][(calls' # <<>>) =>
            /\ IsScrollDownIn(TheView, calls'[1].arg) =>
                  TheView'.scroll_y = AfterScrollDown(TheView)
            /\ IsScrollUpIn(TheView, calls'[1].arg) =>
                  TheView'.scroll_y = AfterScrollUp(TheView)]_vars
    /\ [](\A k \in 1 .. MaxScrolls :
            ScrolledDown(ExampleView, PExample, k).scroll_y
                = IF k <= 15 THEN -10 * k ELSE -150)
    /\ []((TheView.rect = RExample /\ TheView.content_height = 300) =>
            TheView.scroll_y \in {-10 * k : k \in 0 .. 15})

\* the example view was scrolled down to its end and then once more
C14_Witness ==
    /\ TheView.rect = RExample
    /\ TheView.content_height = 300
    /\ TheView.scroll_y = -150
    /\ calls = <<Call("handle_event", 1, MouseDown(PExample, WheelDown), "None")>>
    /\ ScrollView_handle_event(TheView, MouseDown(PExample, WheelDown)) = TheView

\* C15: handle_event leaves the offset as it was for every event other than a
\* scroll-up or scroll-down positioned inside the bounds (scrolls outside,
\* other button presses anywhere, key events), and no event changes
\* contentHeight, the bounds or the child list.
C15_OnlyScrollInsideMoves ==
    /\ [](\A e \in ScrollEvents :
            LET after == ScrollView_handle_event(TheView, e)
            IN  /\ ~(IsScrollDownIn(TheView, e) \/ IsScrollUpIn(TheView, e)) =>
                      after.scroll_y = TheView.scroll_y
                /\ after.content_height = TheView.content_height
                /\ after.rect = TheView.rect
                /\ after.has_children = TheView.has_children
                /\ after.children = TheView.children)
    /\ [][(calls' # <<>>) =>
            /\ ~(IsScrollDownIn(TheView, calls'[1].arg) \/ IsScrollUpIn(TheView, calls'[1].arg))
                  => TheView'.scroll_y = TheView.scroll_y
            /\ TheView'.content_height = TheView.content_height
            /\ TheView'.rect = TheView.rect
            /\ TheView'.has_children = TheView.has_children
            /\ TheView'.children = TheView.children]_vars

\* a scrolled view with children was handed a scroll-down positioned outside
C15_Witness ==
    /\ TheView.rect = R2
    /\ TheView.scroll_y = -10
    /\ Len(TheView.children) = 2
    /\ calls = <<Call("handle_event", 1, MouseDown(POut, WheelDown), "None")>>

--------------------------------------------------------------------------
(* GameEngine: construction and setup *)

\* GameEngine.__init__
InitEngine ==
    /\ ui_elements = <<>>
    /\ game_objects = <<>>
    /\ running = TRUE
    /\ pc = "setup"
    /\ out = <<>>
    /\ screen = InitScreen
    /\ hist = <<>>
    /\ events = <<>>
    /\ calls = <<>>

add_game_object(game_object) ==
    /\ pc = "setup"
    /\ Len(game_objects) < MaxObjects
    /\ game_objects' = Append(game_objects, game_object)
    /\ UNCHANGED <<ui_elements, running, pc, out, screen, hist, events, calls>>

add_ui_element(ui_element) ==
    /\ pc = "setup"
    /\ Len(ui_elements) < MaxWidgets
    /\ ui_elements' = Append(ui_elements, ui_element)
    /\ UNCHANGED <<game_objects, running, pc, out, screen, hist, events, calls>>

\* engine.run() is entered: the program is at the test of the while loop
Run ==
    /\ pc = "setup"
    /\ pc' = "loop"
    /\ UNCHANGED <<ui_elements, game_objects, running, out, screen, hist, events, calls>>

--------------------------------------------------------------------------
(* GameEngine.handle_events *)

ClickLine(text) == [fmt |-> "Button clicked!", arg |-> text]

\* mutant: the isinstance test is dropped, anything under the pointer is clicked
IsClickTarget_anyWidget(ui_element, event) == is_clicked(ui_element, event.pos)

IsClickTarget(ui_element, event) ==
    ui_element.cls = "Button" /\ is_clicked(ui_element, event.pos)

\* the lines printed by the loop over ui_elements for one left press
RECURSIVE ClickLines(_, _, _)
ClickLines(elems, i, event) ==
    IF i > Len(elems) THEN <<>>
    ELSE (IF IsClickTarget(elems[i], event) THEN <<ClickLine(elems[i].text)>> ELSE <<>>)
         \o ClickLines(elems, i + 1, event)

\* the same loop, as the notifications raised: one per button clicked
RECURSIVE ClickCalls(_, _, _)
ClickCalls(elems, i, event) ==
    IF i > Len(elems) THEN <<>>
    ELSE (IF IsClickTarget(elems[i], event) THEN <<Call("print", i, event, "None")>>
          ELSE <<>>)
         \o ClickCalls(elems, i + 1, event)

\* mutant: only InputBoxes are handed the event
HandlesEvents_inputOnly(ui_element) == ui_element.cls = "InputBox"

\* isinstance(ui_element, (InputBox, ScrollView))
HandlesEvents(ui_element) == ui_element.cls \in {"InputBox", "ScrollView"}

\* the second loop over ui_elements, from element i on
RECURSIVE Forward(_, _, _)
Forward(elems, i, event) ==
    IF i > Len(elems) THEN [ui_elements |-> elems, out |-> <<>>, calls |-> <<>>]
    ELSE IF ~HandlesEvents(elems[i]) THEN Forward(elems, i + 1, event)
    ELSE IF elems[i].cls = "InputBox"
    THEN LET r == InputBox_handle_event(elems[i], event)
             rest == Forward([elems EXCEPT ![i] = r.self], i + 1, event)
         IN  [ui_elements |-> rest.ui_elements, out |-> r.out \o rest.out,
              calls |-> <<Call("handle_event", i, event, "None")>> \o rest.calls]
    ELSE LET rest == Forward([elems EXCEPT ![i] = ScrollView_handle_event(elems[i], event)],
                             i + 1, event)
         IN  [rest EXCEPT !.calls = <<Call("handle_event", i, event, "None")>> \o @]

\* mutant: an event of a kind the loop does not know ends the program too
HandleEvent_unknownQuits(st, event) ==
    LET run1 == IF event.type \notin {"MOUSEBUTTONDOWN", "KEYDOWN"} THEN FALSE
                ELSE st.running
        clicks == IF event.type = "MOUSEBUTTONDOWN" /\ event.button = LeftButton
                  THEN ClickLines(st.ui_elements, 1, event)
                  ELSE <<>>
        clickCalls == IF event.type = "MOUSEBUTTONDOWN" /\ event.button = LeftButton
                      THEN ClickCalls(st.ui_elements, 1, event)
                      ELSE <<>>
        fwd == Forward(st.ui_elements, 1, event)
    IN  [running |-> run1, ui_elements |-> fwd.ui_elements,
         out |-> st.out \o clicks \o fwd.out,
         calls |-> st.calls \o clickCalls \o fwd.calls]

\* the body of the for loop over the event queue, for one event
HandleEvent(st, event) ==
    LET run1 == IF event.type = "QUIT" THEN FALSE ELSE st.running
        clicks == IF event.type = "MOUSEBUTTONDOWN" /\ event.button = LeftButton
                  THEN ClickLines(st.ui_elements, 1, event)
                  ELSE <<>>
        clickCalls == IF event.type = "MOUSEBUTTONDOWN" /\ event.button = LeftButton
                      THEN ClickCalls(st.ui_elements, 1, event)
                      ELSE <<>>
        fwd == Forward(st.ui_elements, 1, event)
    IN  [running |-> run1, ui_elements |-> fwd.ui_elements,
         out |-> st.out \o clicks \o fwd.out,
         calls |-> st.calls \o clickCalls \o fwd.calls]

\* for event in pygame.event.get(): ...
RECURSIVE handle_events(_, _)
handle_events(st, queue) ==
    IF queue = <<>> THEN st
    ELSE handle_events(HandleEvent(st, Head(queue)), Tail(queue))

--------------------------------------------------------------------------
(* GameEngine.update and GameEngine.render *)

GameObject_update(self) == self       \* pass

\* draws list[i..] in order; stops where a draw raises
RECURSIVE DrawList(_, _, _)
DrawList(list, i, scr) ==
    IF i > Len(list) THEN [list |-> list, screen |-> scr, raised |-> FALSE]
    ELSE With(Draw(list[i], scr),
              LAMBDA d :
                 IF d.raised
                 THEN [list |-> [list EXCEPT ![i] = d.self], screen |-> d.screen,
                       raised |-> TRUE]
                 ELSE DrawList([list EXCEPT ![i] = d.self], i + 1, d.screen))

\* screen.fill((0, 0, 0)): what was drawn before is gone
fill(scr) == [scr EXCEPT !.drawn = <<>>]

--------------------------------------------------------------------------
(* GameEngine.run: the frame loop, one action per phase *)

EngineEvents ==
    {MouseDown(PIn12, LeftButton), MouseDown(PIn3, LeftButton), MouseDown(PIn12, 3),
     MouseDown(PIn12, WheelDown), MouseDown(PIn12, WheelUp),
     KeyA, KeyReturn, QuitEvent, OtherEvent}

Queues == UNION {[1 .. n -> EngineEvents] : n \in 0 .. MaxQueue}

\* while self.running:
LoopTest ==
    /\ pc = "loop"
    /\ pc' = IF running THEN "handle_events" ELSE "quit"
    /\ UNCHANGED <<ui_elements, game_objects, running, out, screen, hist, events, calls>>

HandleEvents(queue) ==
    /\ pc = "handle_events"
    /\ LET r == handle_events([running |-> running, ui_elements |-> ui_elements,
                               out |-> <<>>, calls |-> <<>>], queue)
       IN  /\ \A i \in 1 .. Len(r.ui_elements) : Len(r.ui_elements[i].text) <= MaxText
           /\ running' = r.running
           /\ ui_elements' = r.ui_elements
           /\ out' = r.out
           /\ calls' = r.calls
    /\ events' = queue
    /\ pc' = "update"
    /\ UNCHANGED <<game_objects, screen, hist>>

Update ==
    /\ pc = "update"
    /\ game_objects' = [i \in 1 .. Len(game_objects) |-> GameObject_update(game_objects[i])]
    /\ pc' = "render"
    /\ out' = <<>>
    /\ events' = <<>>       \* the queue was local to handle_events
    /\ calls' = <<>>
    /\ UNCHANGED <<ui_elements, running, screen, hist>>

\* render(): the game objects, then the widgets, unless a draw raised
render(objects, elems, scr) ==
    With(DrawList(objects, 1, fill(scr)),
         LAMBDA g :
            IF g.raised
            THEN [game_objects |-> g.list, ui_elements |-> elems, screen |-> g.screen,
                  raised |-> TRUE]
            ELSE With(DrawList(elems, 1, g.screen),
                      LAMBDA u : [game_objects |-> g.list, ui_elements |-> u.list,
                                  screen |-> u.screen, raised |-> u.raised]))

Render ==
    /\ pc = "render"
    /\ \E r \in {render(game_objects, ui_elements, screen)} :
          /\ game_objects' = r.game_objects
          /\ ui_elements' = r.ui_elements
          /\ screen' = r.screen
          /\ pc' = IF r.raised THEN "crashed" ELSE "tick"
    /\ UNCHANGED <<running, out, hist, events, calls>>

\* self.clock.tick(60)
Tick ==
    /\ pc = "tick"
    /\ pc' = "loop"
    /\ UNCHANGED <<ui_elements, game_objects, running, out, screen, hist, events, calls>>

\* pygame.quit(); sys.exit()
Teardown ==
    /\ pc = "quit"
    /\ pc' = "exited"
    /\ UNCHANGED <<ui_elements, game_objects, running, out, screen, hist, events, calls>>

--------------------------------------------------------------------------
(* The engine running a scene.  The scenes are what setup can leave in      *)
(* ui_elements and game_objects when run() is entered.                      *)

ViewWithItems ==
    SetChildren(ScrollView(R2.x, R2.y, R2.w, R2.h, 45),
                <<Label(12, 12, 5, 5, <<"1">>), InputBox(12, 14, 5, 5)>>)

Scenes ==
    {<<>>,
     \* like the example: a button, a label, an input box, a scroll view with items
     <<Button(R2.x, R2.y, R2.w, R2.h, <<"B">>), Label(R1.x, R1.y, R1.w, R1.h, <<"L">>),
       InputBox(R3.x, R3.y, R3.w, R3.h), ViewWithItems>>,
     \* two overlapping buttons with a label under the pointer too
     <<Button(R1.x, R1.y, R1.w, R1.h, <<"A">>), Label(R1.x, R1.y, R1.w, R1.h, <<"L">>),
       Button(R2.x, R2.y, R2.w, R2.h, <<"B">>)>>,
     \* two input boxes apart from each other
     <<InputBox(R1.x, R1.y, R1.w, R1.h), InputBox(R3.x, R3.y, R3.w, R3.h)>>,
     \* an input box overlapping a scroll view
     <<InputBox(R1.x, R1.y, R1.w, R1.h), ViewWithItems>>,
     \* a scroll view as constructed, children never assigned
     <<Button(R1.x, R1.y, R1.w, R1.h, <<"A">>), ScrollView(R2.x, R2.y, R2.w, R2.h, 45)>>}

ObjectLists == {<<>>, <<GameObject(100, 100, 50, 50)>>}

Init ==
    /\ ui_elements \in Scenes
    /\ game_objects \in ObjectLists
    /\ running = TRUE
    /\ pc = "loop"
    /\ out = <<>>
    /\ screen = InitScreen
    /\ hist = <<>>
    /\ events = <<>>
    /\ calls = <<>>

Next ==
    \/ LoopTest
    \/ \E queue \in Queues : HandleEvents(queue)
    \/ Update
    \/ Render
    \/ Tick
    \/ Teardown

Spec == Init /\ [][Next]_vars

\* the interpreter keeps executing the loop: no phase waits forever
FairSpec == Spec /\ WF_vars(Next)

--------------------------------------------------------------------------
(* Setup alone, with constructor arguments of every sign *)

Sizes == {<<10, 10>>, <<0, 10>>, <<10, -5>>}

AnyLeaves ==
    UNION {{GameObject(0, 0, s[1], s[2]), Button(0, 0, s[1], s[2], <<"A">>),
            Label(0, 0, s[1], s[2], <<"L">>), InputBox(0, 0, s[1], s[2])} : s \in Sizes}

AnyWidgets ==
    AnyLeaves
        \cup {ScrollView(0, 0, s[1], s[2], 20) : s \in Sizes}
        \cup {SetChildren(ScrollView(0, 0, 10, 10, 20), <<c>>) : c \in AnyLeaves}

NextSetup ==
    \/ \E g \in AnyLeaves : add_game_object(g)
    \/ \E w \in AnyWidgets : add_ui_element(w)
    \/ Run

SpecSetup == InitEngine /\ [][NextSetup]_vars

--------------------------------------------------------------------------
(* Properties of the event router and the frame loop *)

\* the position of the first Quit of a queue that holds one
FirstQuit(queue) ==
    CHOOSE k \in 1 .. Len(queue) :
        /\ queue[k].type = "QUIT"
        /\ \A j \in 1 .. (k - 1) : queue[j].type # "QUIT"

HasQuit(queue) == \E k \in 1 .. Len(queue) : queue[k].type = "QUIT"

\* C2: when the frame's queue holds a Quit, handle_events clears the running flag
\* and processes nothing that comes after the Quit: the widgets and the output
\* are those of the queue cut after its first Quit.
C2_QuitEndsTheFrame ==
    [][(pc = "handle_events" /\ HasQuit(events')) =>
          LET cut == handle_events([running |-> running, ui_elements |-> ui_elements,
                                    out |-> <<>>, calls |-> <<>>],
                                   SubSeq(events', 1, FirstQuit(events')))
          IN  /\ running' = FALSE
              /\ ui_elements' = cut.ui_elements
              /\ out' = cut.out]_vars

\* the texts of the click notifications among the printed lines, in order
ClickArgs(lines) ==
    LET clicks == SelectSeq(lines, LAMBDA l : l.fmt = "Button clicked!")
    IN  [i \in 1 .. Len(clicks) |-> clicks[i].arg]

\* the Buttons of elems whose bounds contain p, in list order, by their text
ButtonsAt(elems, p) ==
    LET hit == SelectSeq(elems, LAMBDA w : w.cls = "Button" /\ InBounds(w.rect, p))
    IN  [i \in 1 .. Len(hit) |-> hit[i].text]

RECURSIVE ExpectedClicks(_, _)
ExpectedClicks(elems, queue) ==
    IF queue = <<>> THEN <<>>
    ELSE (IF IsPress(Head(queue)) /\ Head(queue).button = 1
          THEN ButtonsAt(elems, Head(queue).pos) ELSE <<>>)
         \o ExpectedClicks(elems, Tail(queue))

\* C7: a primary-button press at p raises one click notification for each
\* Button of the widget list whose bounds contain p, in list order, and for no
\* other widget; a press that hits no Button, or with another button-id,
\* raises none.
C7_ClicksExactlyHitButtons ==
    [][pc = "handle_events" => ClickArgs(out') = ExpectedClicks(ui_elements, events')]_vars

\* one press over two overlapping buttons and a label notified both buttons only
C7_Witness ==
    /\ pc = "update"
    /\ events = <<MouseDown(PIn12, LeftButton)>>
    /\ Len(ui_elements) = 3
    /\ ui_elements[2].cls = "Label" /\ InBounds(ui_elements[2].rect, PIn12)
    /\ out = <<ClickLine(<<"A">>), ClickLine(<<"B">>)>>

AllDrawables ==
    {game_objects[i] : i \in 1 .. Len(game_objects)}
        \cup {ui_elements[i] : i \in 1 .. Len(ui_elements)}
        \cup UNION {{ui_elements[i].children[j] : j \in 1 .. Len(ui_elements[i].children)} :
                      i \in 1 .. Len(ui_elements)}

\* C8: construction with a non-positive width or height fails, so once the
\* frame loop runs no object of the object list, the widget list or a
\* ScrollView's child list has width <= 0 or height <= 0.
C8_NoNonPositiveSize ==
    pc # "setup" => \A d \in AllDrawables : d.rect.w > 0 /\ d.rect.h > 0

\* C10: once the running flag is false it is never true again, the loop test
\* then starts no further frame but goes to teardown, and the program does
\* reach the end of teardown (in particular after a Quit was delivered).
C10_FlagStopsTheLoop ==
    /\ [][~running => ~running']_vars
    /\ [][(pc = "loop" /\ ~running) => pc' = "quit"]_vars
    /\ (~running ~> pc = "exited")

\* the k-th smallest member of a set of list positions
Nth(S, k) == CHOOSE i \in S : Cardinality({j \in S : j < i}) = k - 1

\* one call entry per member of S, in ascending order
CallsOn(op, S, event) ==
    [k \in 1 .. Cardinality(S) |-> Call(op, Nth(S, k), event, "None")]

\* what the router owes one event: the click notifications, then one
\* handle_event per top-level InputBox and ScrollView
OwedCalls(elems, event) ==
    CallsOn("print",
            {i \in 1 .. Len(elems) : /\ IsPress(event) /\ event.button = 1
                                     /\ elems[i].cls = "Button"
                                     /\ InBounds(elems[i].rect, event.pos)},
            event)
    \o CallsOn("handle_event",
               {i \in 1 .. Len(elems) : elems[i].cls \in {"InputBox", "ScrollView"}},
               event)

RECURSIVE OwedCallsOfQueue(_, _)
OwedCallsOfQueue(elems, queue) ==
    IF queue = <<>> THEN <<>>
    ELSE OwedCalls(elems, Head(queue)) \o OwedCallsOfQueue(elems, Tail(queue))

ChildrenOf(elems) == [i \in 1 .. Len(elems) |-> elems[i].children]

\* C11: every event of the frame's queue is handed exactly once to handle_event
\* of every InputBox and ScrollView of the top-level widget list, in list order
\* and after the click notifications of that event; nothing is handed to a
\* Button or a Label, and the children of a ScrollView are left as they were.
C11_ForwardedOnceInOrder ==
    [][pc = "handle_events" =>
          /\ calls' = OwedCallsOfQueue(ui_elements, events')
          /\ ChildrenOf(ui_elements') = ChildrenOf(ui_elements)]_vars

\* a press over a Button, and over the InputBox child of a ScrollView, was
\* notified and then handed to the top-level InputBox and the ScrollView
C11_Witness ==
    /\ pc = "update"
    /\ events = <<MouseDown(PIn12, LeftButton)>>
    /\ Len(ui_elements) = 4
    /\ ui_elements[1].cls = "Button" /\ ui_elements[2].cls = "Label"
    /\ ui_elements[4].has_children
    /\ \E j \in 1 .. Len(ui_elements[4].children) :
          /\ ui_elements[4].children[j].cls = "InputBox"
          /\ InBounds(ui_elements[4].children[j].rect, PIn12)
    /\ calls = <<Call("print", 1, events[1], "None"),
                 Call("handle_event", 3, events[1], "None"),
                 Call("handle_event", 4, events[1], "None")>>

\* C12: an event of a kind the router does not know leaves the running flag,
\* every InputBox's focus and buffer and every ScrollView's offset as they
\* were and raises no click notification: a queue of such events changes
\* nothing, and in any queue they can be left out without changing the result.
C12_UnknownKindIgnored ==
    [][pc = "handle_events" =>
          LET known == SelectSeq(events', LAMBDA e : e.type \in {"QUIT", "MOUSEBUTTONDOWN", "KEYDOWN"})
              r == handle_events([running |-> running, ui_elements |-> ui_elements,
                                  out |-> <<>>, calls |-> <<>>], known)
          IN  /\ running' = r.running
              /\ ui_elements' = r.ui_elements
              /\ out' = r.out
              /\ known = <<>> =>
                    /\ running' = running
                    /\ ui_elements' = ui_elements
                    /\ out' = <<>>]_vars

\* an unknown event was delivered while a box was focused with text and a
\* view was scrolled
C12_Witness ==
    /\ pc = "update"
    /\ events = <<OtherEvent>>
    /\ running
    /\ \E i \in 1 .. Len(ui_elements) :
          ui_elements[i].cls = "InputBox" /\ ui_elements[i].active /\ ui_elements[i].text # <<>>
    /\ \E i \in 1 .. Len(ui_elements) :
          ui_elements[i].cls = "ScrollView" /\ ui_elements[i].scroll_y < 0

\* a wheel event: pygame delivers it as a press of button 4 (up) or 5 (down)
IsScroll(e) == IsPress(e) /\ e.button \in {4, 5}

InputBoxesOf(elems) == {i \in 1 .. Len(elems) : elems[i].cls = "InputBox"}

\* C16: a scroll event (wheel up or down, at any position) processed by the
\* router changes no InputBox's focus and no InputBox's buffer: a frame whose
\* queue holds scroll events only leaves every InputBox as it was.
C16_ScrollLeavesInputBoxes ==
    [][(pc = "handle_events" /\ events' # <<>>
          /\ \A k \in 1 .. Len(events') : IsScroll(events'[k])) =>
          \A i \in InputBoxesOf(ui_elements) :
              /\ ui_elements'[i].active = ui_elements[i].active
              /\ ui_elements'[i].text = ui_elements[i].text]_vars

Disjoint(r1, r2) ==
    \/ r1.x + r1.w <= r2.x \/ r2.x + r2.w <= r1.x
    \/ r1.y + r1.h <= r2.y \/ r2.y + r2.h <= r1.y

SeveralDisjointBoxes(elems) ==
    /\ Cardinality(InputBoxesOf(elems)) >= 2
    /\ \A i, j \in InputBoxesOf(elems) : i # j => Disjoint(elems[i].rect, elems[j].rect)

BuffersChanged(before, after) ==
    {i \in InputBoxesOf(before) : after[i].text # before[i].text}

\* C17: when the widget list holds several InputBoxes with pairwise disjoint
\* bounds, after any sequence of dispatched events at most one of them is
\* Focused, and each KeyDown changes the buffer of at most one of them.
C17_AtMostOneFocused ==
    /\ [](SeveralDisjointBoxes(ui_elements) =>
            /\ Cardinality({i \in InputBoxesOf(ui_elements) : ui_elements[i].active}) <= 1
            /\ \A e \in {x \in EngineEvents : IsKey(x)} :
                  Cardinality(BuffersChanged(ui_elements,
                      HandleEvent([running |-> running, ui_elements |-> ui_elements,
                                   out |-> <<>>, calls |-> <<>>], e).ui_elements)) <= 1)
    /\ [][(pc = "handle_events" /\ SeveralDisjointBoxes(ui_elements)
             /\ Len(events') = 1 /\ IsKey(events'[1])) =>
             Cardinality(BuffersChanged(ui_elements, ui_elements')) <= 1]_vars

\* the first box was typed into, then the focus moved to the second box by a
\* press inside it and a key went to the second box alone
C17_Witness ==
    /\ pc = "update"
    /\ SeveralDisjointBoxes(ui_elements)
    /\ ui_elements[1].text = <<"a">> /\ ~ui_elements[1].active
    /\ ui_elements[2].text = <<"a">> /\ ui_elements[2].active
    /\ events = <<KeyA>>

\* C18: a ScrollView can be used as constructed: with a freshly constructed
\* ScrollView in the widget list, rendering a frame ends without an error.
C18_FreshScrollViewRenders ==
    (\E i \in 1 .. Len(ui_elements) :
        ui_elements[i].cls = "ScrollView" /\ ~ui_elements[i].has_children)
    => pc # "crashed"

\* what a frame's render must leave on the surface: each entry of the list in
\* order, a ScrollView with its children
RECURSIVE FrameOf(_, _)
FrameOf(list, clip) ==
    IF list = <<>> THEN <<>>
    ELSE (IF Head(list).cls = "ScrollView" THEN ExpectedDrawn(Head(list))
          ELSE <<[cls |-> Head(list).cls, text |-> Head(list).text,
                  rect |-> Head(list).rect, clip |-> clip]>>)
         \o FrameOf(Tail(list), clip)

\* focus, buffer and offset of every widget
WidgetStates(elems) ==
    [i \in 1 .. Len(elems) |->
        [active |-> elems[i].active, text |-> elems[i].text, scroll_y |-> elems[i].scroll_y]]

\* C19: every frame that starts (flag true at the loop test) does one event
\* dispatch, then one update of the game objects, then one render (the game
\* objects in list order, then the widgets in list order), then one pacing
\* step, in that order; update and render change no widget's focus, buffer
\* or offset.
C19_FramePhasesInOrder ==
    /\ [][(pc = "loop" /\ running) => pc' = "handle_events"]_vars
    /\ [][pc = "handle_events" => pc' = "update"]_vars
    /\ [][pc = "update" =>
            /\ pc' = "render"
            /\ WidgetStates(ui_elements') = WidgetStates(ui_elements)]_vars
    /\ [][pc = "render" =>
            /\ pc' = "tick"
            /\ screen'.drawn = FrameOf(game_objects, screen.clip)
                                   \o FrameOf(ui_elements, screen.clip)
            /\ WidgetStates(ui_elements') = WidgetStates(ui_elements)]_vars
    /\ [][pc = "tick" => pc' = "loop"]_vars

--------------------------------------------------------------------------
(* Properties of the Button, checked under SpecButton *)

TheButton == ui_elements[1]

\* C13: is_clicked(p) answers true exactly when x <= p.x < x + w and
\* y <= p.y < y + h: a point on the left or top edge is a hit, a point on the
\* right or bottom edge is not; the call changes nothing of the button.
C13_HitTestHalfOpen ==
    /\ [](calls # <<>> =>
            LET p == calls[1].arg
                r == TheButton.rect
            IN  /\ calls[1].result = (/\ r.x <= p[1] /\ p[1] < r.x + r.w
                                      /\ r.y <= p[2] /\ p[2] < r.y + r.h)
                /\ (p[1] = r.x + r.w \/ p[2] = r.y + r.h) => ~calls[1].result)
    /\ [](LET r == TheButton.rect
          IN  /\ is_clicked(TheButton, <<r.x, r.y>>)
              /\ is_clicked(TheButton, <<r.x, r.y + r.h - 1>>)
              /\ is_clicked(TheButton, <<r.x + r.w - 1, r.y>>)
              /\ ~is_clicked(TheButton, <<r.x + r.w, r.y>>)
              /\ ~is_clicked(TheButton, <<r.x, r.y + r.h>>))
    /\ [][ui_elements' = ui_elements]_vars

\* the point on the right edge, level with the inside, was asked and missed
C13_Witness ==
    /\ TheButton.rect = R2
    /\ calls = <<Call("is_clicked", 1, <<R2.x + R2.w, R2.y + 9>>, FALSE)>>

====
